---- MODULE Spec2Model ----
(***************************************************************************)
(* Model of the self-update pipeline of Tiggit, src/misc/self_update.hpp:  *)
(* UpdateLog, Updater::checkVersion, Updater::doAutoUpdate and             *)
(* Updater::doUpdate.  One run of the executable is one behaviour: the     *)
(* foreground control flow of doAutoUpdate is cut at its suspension points *)
(* (the poll loops) and at its calls into the file system and the process  *)
(* launcher; the background DownloadJob / ZipJob advance concurrently.     *)
(*                                                                         *)
(* Version tokens are opaque and only compared for equality, so they are   *)
(* the numbers 1..NumVersions; 0 stands for "no such file" / "unknown".    *)
(***************************************************************************)
EXTENDS Integers, Sequences, FiniteSets, TLC

\* ---------------------------------------------------------------- bounds
NumVersions == 2        \* distinct version tokens
MaxBytes == 2           \* size of a transfer whose total is known
MaxChecks == 2          \* checkVersion calls made by the oracle harness

\* ------------------------------------------------------------- constants
NoFile == 0             \* exists(path) is false
Unknown == 0            \* Updater::version before the marker is read
Pulse == 0 - 1          \* the sink got pulse() instead of update(prog)
NoProg == 0 - 2         \* the sink got nothing yet
LaunchFailed == 0 - 1   \* the value doAutoUpdate compares wxExecute against

Versions == 1..NumVersions
FileVals == {NoFile} \cup Versions

\* wxExecute returns a long: a process id (> 0) when the process was
\* started, 0 or -1 when it could not be started.
LaunchResults == {LaunchFailed, 0, 1}
Started(res) == res > 0

\* boost::filesystem calls made by copyLog either succeed or throw.
CopyOutcomes == {"ok", "removeThrows", "copyThrows"}

\* A manifest as served by the remote end of a channel.
Manifests(zip) ==
  {[ok |-> FALSE, version |-> Unknown, url |-> zip]} \cup
  {[ok |-> TRUE, version |-> v, url |-> zip] : v \in Versions}

\* What earlier runs left in update_log.txt.
OldLog == <<"earlier run">>

\* Contents of the staging directory this_path/update.
NoDir == [exists |-> FALSE, exe |-> NoFile, version |-> NoFile, dlls |-> NoFile]
EmptyDir == [exists |-> TRUE, exe |-> NoFile, version |-> NoFile, dlls |-> NoFile]
StagedApp(v) == [exists |-> TRUE, exe |-> v, version |-> v, dlls |-> NoFile]

NoJob == [status |-> "none", abortRequested |-> FALSE, total |-> 0, current |-> 0]
NewJob == [status |-> "busy", abortRequested |-> FALSE, total |-> 0, current |-> 0]

VARIABLES
  pc,              \* position of the foreground control flow
  this_exe,        \* leaf name of the running executable
  override,        \* this_path/override exists
  exeFile,         \* build held by this_path/tiggit.exe
  updater_exe,     \* build held by this_path/update.exe, or NoFile
  versionFile,     \* token in this_path/version, or NoFile
  dllVersionFile,  \* token in this_path/dll_version, or NoFile
  up_dest,         \* the staging directory this_path/update
  appManifest,     \* what latest.tig holds on the server
  dllManifest,     \* what dlls.tig holds on the server
  version,         \* Updater::version
  offline,         \* Updater::offline
  ti,              \* DataList::TigInfo ti of doAutoUpdate
  dll_version,     \* local of doAutoUpdate
  newDlls,         \* local of doAutoUpdate
  channel,         \* which channel the current checkVersion / doUpdate serves
  ver,             \* parameter ver of the current checkVersion
  getter,          \* the DownloadJob of the current checkVersion / doUpdate
  install,         \* the ZipJob of the current doUpdate
  cvRet,           \* value returned by the last checkVersion
  duRet,           \* value returned by the last doUpdate
  run,             \* local of doAutoUpdate: the path handed to wxExecute
  result,          \* what doAutoUpdate returned: none / true / false / threw
  retLine,         \* source line of the return statement taken
  launched,        \* sequence of wxExecute calls: [target, res]
  logfile,         \* UpdateLog::logfile: closed / open / failed / bad
  log,             \* the lines of this_path/update_log.txt
  lastProg,        \* last value handed to the progress sink
  hist,            \* history of the run, for stating properties only
  sess             \* the sequence of runs on this disk: from which directory
                   \* this run executes, and what the runs before it did

vars == <<pc, this_exe, override, exeFile, updater_exe, versionFile,
          dllVersionFile, up_dest, appManifest, dllManifest, version, offline,
          ti, dll_version, newDlls, channel, ver, getter, install, cvRet,
          duRet, run, result, retLine, launched, logfile, log, lastProg, hist,
          sess>>

diskVars == <<override, exeFile, updater_exe, versionFile, dllVersionFile, up_dest>>
remoteVars == <<appManifest, dllManifest>>

InitHist ==
  [manifestFetches |-> 0, archiveFetches |-> 0, unpacks |-> 0,
   cvCancel |-> FALSE, cvSuccess |-> FALSE, duCancel |-> FALSE,
   offlineAtEntry |-> FALSE, checks |-> 0, failedAt |-> "none",
   prepared |-> FALSE, abandoned |-> FALSE,
   start |-> [versionFile |-> NoFile, exeFile |-> NoFile,
              updater_exe |-> NoFile, up_dest |-> NoDir]]

\* The install directory as kept aside while a run executes from the
\* staging directory, whose files that run then sees as its own.
NoOuter ==
  [override |-> FALSE, exeFile |-> NoFile, updater_exe |-> NoFile,
   versionFile |-> NoFile, dllVersionFile |-> NoFile, dlls |-> NoFile]

\* First run of a sequence, started from the install directory.
InitSess ==
  [staged |-> FALSE, outer |-> NoOuter,
   prev |-> [role |-> "none", staged |-> FALSE, retLine |-> 0],
   chain |-> TRUE, nofail |-> TRUE, downloaded |-> FALSE,
   exe0 |-> NoFile, dll0 |-> NoFile]

\* The Updater as constructed (lines 73-75), no job running, and whatever
\* the two channels serve.
InitCommon ==
  /\ appManifest \in Manifests("app.zip")
  /\ dllManifest \in Manifests("dlls.zip")
  /\ version = Unknown
  /\ offline = FALSE
  /\ ti = [version |-> Unknown, url |-> "none"]
  /\ dll_version = Unknown
  /\ newDlls = FALSE
  /\ channel = "none"
  /\ ver = Unknown
  /\ getter = NoJob
  /\ install = NoJob
  /\ cvRet = TRUE
  /\ duRet = TRUE
  /\ run = "none"
  /\ result = "none"
  /\ retLine = 0
  /\ launched = << >>
  /\ logfile = "closed"
  /\ log = OldLog
  /\ lastProg = NoProg

\* The state doAutoUpdate is entered in: any disk the installer, an earlier
\* run or a crash may have left, with the running executable present.
Init ==
  /\ InitCommon
  /\ override \in BOOLEAN
  /\ exeFile \in Versions
  /\ updater_exe \in FileVals
  /\ versionFile \in FileVals
  /\ dllVersionFile \in FileVals
  /\ up_dest \in {NoDir, EmptyDir} \cup {StagedApp(v) : v \in Versions}
  /\ pc = "start"
  /\ this_exe \in {"tiggit.exe", "update.exe"}
  /\ (this_exe = "update.exe" => updater_exe # NoFile)
  /\ hist = [InitHist EXCEPT !.start =
               [versionFile |-> versionFile, exeFile |-> exeFile,
                updater_exe |-> updater_exe, up_dest |-> up_dest]]
  /\ sess = [InitSess EXCEPT !.exe0 = exeFile, !.dll0 = dllVersionFile]

\* ------------------------------------------------------------ helpers
Return(val, line) ==
  /\ pc' = "done"
  /\ result' = val
  /\ retLine' = line

\* An exception of boost::filesystem leaves doAutoUpdate: nothing catches it.
Throw == Return("threw", 0)

IsFinished(job) == job.status \in {"done", "error", "abort"}
IsSuccess(job) == job.status = "done"
IsNonSuccess(job) == job.status \in {"error", "abort"}

\* Mutant of Prog: the percentage is not clamped.
Prog_NoClamp(current, total) == (current * 100) \div total

\* The percentage of lines 98-100 / 379-381.
Prog(current, total) ==
  LET prog == (current * 100) \div total
  IN  IF prog >= 100 THEN 99 ELSE prog

\* Mutant of Progress: an unknown total is shown as 0 percent.
Progress_ZeroPercent(job) ==
  IF job.total # 0 THEN Prog(job.current, job.total) ELSE 0

\* What the poll hands to the sink: update(prog) or pulse().
Progress(job) ==
  IF job.total # 0 THEN Prog(job.current, job.total) ELSE Pulse

\* Mutant of Record: the file is rewritten instead of appended to.
Record_Truncate(file, stream, lines) ==
  IF stream = "open" THEN lines ELSE file

\* UpdateLog::log called once per element of `lines`: each call appends one
\* line to the file; on a stream that failed to open, operator<< does nothing.
Record(file, stream, lines) ==
  IF stream = "open" THEN file \o lines ELSE file

\* Lines 176, 193, 202: the directory of the running executable, and the
\* directory of new_exe = this_path / "tiggit.exe", which is the same one.
this_path == IF sess.staged THEN "install/update" ELSE "install"
new_path == this_path

\* Mutant of CopyLog: the destination is left as it was.
CopyLog_NoCopy(from, to, outcome) == [to |-> to, threw |-> FALSE]

\* UpdateLog::copyLog on one destination: the new contents of `to` and
\* whether the call threw.  remove(to) runs only when `to` exists; copy_file
\* throws when asked to or when `from` does not exist.
CopyLog(from, to, outcome) ==
  IF outcome = "removeThrows" /\ to # NoFile
    THEN [to |-> to, threw |-> TRUE]
  ELSE IF outcome = "copyThrows" \/ from = NoFile
    THEN [to |-> NoFile, threw |-> TRUE]
  ELSE [to |-> from, threw |-> FALSE]

\* Mutant of HasResidue: a leftover update.exe alone is not noticed.
HasResidue_DirOnly(dir, upd) == dir.exists

\* Line 245: update remains exist.
HasResidue(dir, upd) == dir.exists \/ upd # NoFile

\* Mutant of RunTarget: update.exe is run whatever was staged.
RunTarget_AlwaysHelper(nd) == "update.exe"

\* Lines 335-340: the path to run, by whether new dlls were staged.
RunTarget(nd) == IF nd THEN "update/tiggit.exe" ELSE "update.exe"

\* The manifest file the server holds for a channel.
Manifest(ch) == IF ch = "app" THEN appManifest ELSE dllManifest

\* What unpacking the archive of a channel leaves in the staging directory.
Unpacked(dir, url, v) ==
  IF url = "app.zip"
    THEN [exists |-> TRUE, exe |-> v, version |-> v, dlls |-> dir.dlls]
    ELSE [exists |-> TRUE, exe |-> dir.exe, version |-> dir.version, dlls |-> v]

\* ------------------------------------------------- doAutoUpdate, entry
\* Mutant of OverrideBlocks: the override file only counts for the main app.
OverrideBlocks_MainOnly(ovr, exe) == ovr /\ exe # "update.exe"

\* Lines 171-174: the override file disables the run, whatever the role.
OverrideBlocks(ovr, exe) == ovr

\* Lines 167-183: platform check, override check, the log is opened for
\* appending (which may fail) and gets its first line, role detection.
Start ==
  /\ pc = "start"
  /\ \E windows \in BOOLEAN :
       IF ~windows THEN
         /\ Return("false", 169)
         /\ UNCHANGED <<logfile, log>>
       ELSE IF OverrideBlocks(override, this_exe) THEN
         /\ Return("false", 174)
         /\ UNCHANGED <<logfile, log>>
       ELSE
         /\ \E opened \in BOOLEAN :
              logfile' = IF opened THEN "open" ELSE "failed"
         /\ log' = Record(log, logfile', <<"this_exe">>)
         /\ pc' = IF this_exe = "update.exe" THEN "helper" ELSE "clean"
         /\ UNCHANGED <<result, retLine>>
  /\ UNCHANGED <<this_exe, diskVars, remoteVars, version, offline, ti,
                 dll_version, newDlls, channel, ver, getter, install, cvRet,
                 duRet, run, launched, lastProg, hist, sess>>

\* Lines 193-234, the updater role.  new_exe is this_path/"tiggit.exe", so
\* new_path == this_path always holds and only the exe is copied.
HelperUpdate ==
  /\ UNCHANGED <<logfile, sess>>
  /\ pc = "helper"
  /\ new_path = this_path
  /\ \E outcome \in CopyOutcomes, res \in LaunchResults :
       LET c == CopyLog(updater_exe, exeFile, outcome)
       IN  /\ exeFile' = c.to
           /\ IF c.threw THEN
                /\ Throw
                /\ log' = Record(log, logfile, <<"Updating to new_exe", "Copy">>)
                /\ UNCHANGED launched
              ELSE
                /\ log' = Record(log, logfile, <<"Updating to new_exe", "Copy", "Running">>)
                /\ launched' = Append(launched, [target |-> "tiggit.exe", res |-> res])
                /\ Return("true", 234)
  /\ UNCHANGED <<this_exe, override, updater_exe, versionFile, dllVersionFile,
                 up_dest, remoteVars, version, offline, ti, dll_version,
                 newDlls, channel, ver, getter, install, cvRet, duRet, run,
                 lastProg, hist>>

\* Mutant of Clean: update.exe is left where it is.
Clean_KeepsHelper ==
  /\ UNCHANGED <<logfile, sess>>
  /\ pc = "clean"
  /\ LET read == IF versionFile # NoFile THEN versionFile ELSE version
     IN
     IF HasResidue(up_dest, updater_exe) THEN
       \E outcome \in {"ok", "removeAllThrows", "removeThrows"} :
         /\ log' = Record(log, logfile, <<"Cleaning up">>)
         /\ IF outcome = "removeAllThrows" /\ up_dest.exists THEN
              /\ Throw
              /\ UNCHANGED <<up_dest, updater_exe, version>>
            ELSE IF outcome = "removeThrows" /\ updater_exe # NoFile THEN
              /\ Throw
              /\ up_dest' = NoDir
              /\ UNCHANGED <<updater_exe, version>>
            ELSE
              /\ up_dest' = NoDir
              /\ updater_exe' = updater_exe
              /\ version' = read
              /\ Return("false", 279)
         /\ UNCHANGED <<channel, ver>>
     ELSE
       /\ version' = read
       /\ log' = Record(log, logfile, <<"Fetching">>)
       /\ channel' = "app"
       /\ ver' = read
       /\ pc' = "checkVersion"
       /\ UNCHANGED <<up_dest, updater_exe, result, retLine>>
  /\ UNCHANGED <<this_exe, override, exeFile, versionFile, dllVersionFile,
                 remoteVars, offline, ti, dll_version, newDlls, getter,
                 install, cvRet, duRet, run, launched, lastProg, hist>>

\* Lines 237-292: remove update remains, read the version marker, return
\* after a cleaning round, otherwise go on to the application check.
Clean ==
  /\ UNCHANGED <<logfile, sess>>
  /\ pc = "clean"
  /\ LET read == IF versionFile # NoFile THEN versionFile ELSE version
     IN
     IF HasResidue(up_dest, updater_exe) THEN
       \E outcome \in {"ok", "removeAllThrows", "removeThrows"} :
         /\ log' = Record(log, logfile, <<"Cleaning up">>)
         /\ IF outcome = "removeAllThrows" /\ up_dest.exists THEN
              /\ Throw
              /\ UNCHANGED <<up_dest, updater_exe, version>>
            ELSE IF outcome = "removeThrows" /\ updater_exe # NoFile THEN
              /\ Throw
              /\ up_dest' = NoDir
              /\ UNCHANGED <<updater_exe, version>>
            ELSE
              /\ up_dest' = NoDir
              /\ updater_exe' = NoFile
              /\ version' = read
              /\ Return("false", 279)
         /\ UNCHANGED <<channel, ver>>
     ELSE
       /\ version' = read
       /\ log' = Record(log, logfile, <<"Fetching">>)
       /\ channel' = "app"
       /\ ver' = read
       /\ pc' = "checkVersion"
       /\ UNCHANGED <<up_dest, updater_exe, result, retLine>>
  /\ UNCHANGED <<this_exe, override, exeFile, versionFile, dllVersionFile,
                 remoteVars, offline, ti, dll_version, newDlls, getter,
                 install, cvRet, duRet, run, launched, lastProg, hist>>

\* ------------------------------------------------------- checkVersion
\* Lines 83-86: the manifest download is created and started.
CheckVersionEntry ==
  /\ UNCHANGED <<logfile, sess>>
  /\ pc = "checkVersion"
  /\ getter' = NewJob
  /\ hist' = [hist EXCEPT !.manifestFetches = @ + 1, !.cvCancel = FALSE,
                          !.offlineAtEntry = offline]
  /\ pc' = "cvPoll"
  /\ UNCHANGED <<this_exe, diskVars, remoteVars, version, offline, ti,
                 dll_version, newDlls, channel, ver, install, cvRet, duRet,
                 run, result, retLine, launched, log, lastProg>>

\* Lines 91-119: one pass of the poll loop up to the cancel test.  res is
\* what update()/pulse() returned: FALSE when the user clicked Cancel.
CvPoll ==
  /\ UNCHANGED <<logfile, sess>>
  /\ pc = "cvPoll"
  /\ lastProg' = Progress(getter)
  /\ \E res \in BOOLEAN :
       IF ~res THEN
         /\ getter' = [getter EXCEPT !.abortRequested = TRUE]
         /\ offline' = TRUE
         /\ hist' = [hist EXCEPT !.cvCancel = TRUE]
         /\ pc' = "cvAfter"
       ELSE
         /\ pc' = "cvFinished"
         /\ UNCHANGED <<getter, offline, hist>>
  /\ UNCHANGED <<this_exe, diskVars, remoteVars, version, ti, dll_version,
                 newDlls, channel, ver, install, cvRet, duRet, run, result,
                 retLine, launched, log>>

\* Lines 121-123: leave the loop when the job is finished.
CvFinished ==
  /\ UNCHANGED <<logfile, sess>>
  /\ pc = "cvFinished"
  /\ pc' = IF IsFinished(getter) THEN "cvAfter" ELSE "cvPoll"
  /\ UNCHANGED <<this_exe, diskVars, remoteVars, version, offline, ti,
                 dll_version, newDlls, channel, ver, getter, install, cvRet,
                 duRet, run, result, retLine, launched, log, lastProg, hist>>

\* Mutant of CheckVersionRet: the versions are not compared.
CheckVersionRet_NoCompare(job, off, manifest, v) ==
  IF ~IsSuccess(job) \/ off THEN TRUE
  ELSE IF ~manifest.ok THEN TRUE
  ELSE FALSE

\* Mutant of CheckVersionRet: the offline flag is not consulted.
CheckVersionRet_NoOffline(job, off, manifest, v) ==
  IF ~IsSuccess(job) THEN TRUE
  ELSE IF ~manifest.ok THEN TRUE
  ELSE IF v = manifest.version THEN TRUE
  ELSE FALSE

\* Lines 134-152: the value checkVersion returns, given the job as it is
\* when line 134 reads it, the offline flag, the served manifest and ver.
CheckVersionRet(job, off, manifest, v) ==
  IF ~IsSuccess(job) \/ off THEN TRUE
  ELSE IF ~manifest.ok THEN TRUE
  ELSE IF v = manifest.version THEN TRUE
  ELSE FALSE

\* Whether decodeTigFile (line 141) ran and filled ti.
Decoded(job, off, manifest) == IsSuccess(job) /\ ~off /\ manifest.ok

\* What went wrong in a check, in the terms of the error taxonomy.
CheckFailure(job, cancel, manifest) ==
  IF cancel THEN "UserCanceled"
  ELSE IF ~IsSuccess(job) THEN "NetworkFailure"
  ELSE IF ~manifest.ok THEN "ParseFailure"
  ELSE "none"

Step(prefix, ch) == IF ch = "app" THEN prefix \o "App" ELSE prefix \o "Libs"

\* Lines 134-152 as a step: checkVersion returns and its job is destroyed.
CvAfter ==
  /\ UNCHANGED <<logfile, sess>>
  /\ pc = "cvAfter"
  /\ cvRet' = CheckVersionRet(getter, offline, Manifest(channel), ver)
  /\ ti' = IF Decoded(getter, offline, Manifest(channel))
             THEN [version |-> Manifest(channel).version,
                   url |-> Manifest(channel).url]
             ELSE ti
  /\ hist' = [hist EXCEPT
                !.cvSuccess = IsSuccess(getter),
                !.abandoned = @ \/ ~IsFinished(getter),
                !.failedAt =
                  IF CheckFailure(getter, hist.cvCancel, Manifest(channel)) # "none"
                       /\ @ = "none"
                    THEN Step("Checking", channel) ELSE @]
  /\ getter' = NoJob
  /\ pc' = "cvReturned"
  /\ UNCHANGED <<this_exe, diskVars, remoteVars, version, offline,
                 dll_version, newDlls, channel, ver, install, duRet, run,
                 result, retLine, launched, log, lastProg>>

\* Lines 292-305: the application check has returned.
AfterAppCheck ==
  /\ UNCHANGED <<logfile, sess>>
  /\ pc = "cvReturned"
  /\ channel = "app"
  /\ IF cvRet THEN
       /\ log' = Record(log, logfile, <<"up-to-date">>)
       /\ Return("false", 296)
     ELSE
       /\ log' = Record(log, logfile, <<"Upgrading version">>)
       /\ pc' = "doUpdate"
       /\ UNCHANGED <<result, retLine>>
  /\ UNCHANGED <<this_exe, diskVars, remoteVars, version, offline, ti,
                 dll_version, newDlls, channel, ver, getter, install, cvRet,
                 duRet, run, launched, lastProg, hist>>

\* Lines 317-326: the library check has returned.
AfterDllCheck ==
  /\ UNCHANGED <<logfile, sess>>
  /\ pc = "cvReturned"
  /\ channel = "dll"
  /\ IF ~cvRet THEN
       /\ log' = Record(log, logfile, <<"Upgrading dll-pack version">>)
       /\ pc' = "doUpdate"
     ELSE
       /\ pc' = "prepare"
       /\ UNCHANGED log
  /\ UNCHANGED <<this_exe, diskVars, remoteVars, version, offline, ti,
                 dll_version, newDlls, channel, ver, getter, install, cvRet,
                 duRet, run, result, retLine, launched, lastProg, hist>>

\* ----------------------------------------------------------- doUpdate
\* Lines 362-367: the archive download is created and started.
DoUpdateEntry ==
  /\ UNCHANGED <<logfile, sess>>
  /\ pc = "doUpdate"
  /\ getter' = NewJob
  /\ install' = NoJob
  /\ hist' = [hist EXCEPT !.archiveFetches = @ + 1]
  /\ pc' = "duPoll"
  /\ UNCHANGED <<this_exe, diskVars, remoteVars, version, offline, ti,
                 dll_version, newDlls, channel, ver, cvRet, duRet, run,
                 result, retLine, launched, log, lastProg>>

\* Lines 372-390: one pass of the download poll loop up to the cancel test.
DuPoll ==
  /\ UNCHANGED <<logfile, sess>>
  /\ pc = "duPoll"
  /\ lastProg' = Progress(getter)
  /\ \E res \in BOOLEAN :
       IF ~res THEN
         /\ getter' = [getter EXCEPT !.abortRequested = TRUE]
         /\ hist' = [hist EXCEPT !.duCancel = TRUE]
       ELSE
         UNCHANGED <<getter, hist>>
  /\ pc' = "duFinished"
  /\ UNCHANGED <<this_exe, diskVars, remoteVars, version, offline, ti,
                 dll_version, newDlls, channel, ver, install, cvRet, duRet,
                 run, result, retLine, launched, log>>

\* Mutant of DuFinished: the loop is left whether or not the job finished.
DuFinished_NoWait ==
  /\ UNCHANGED <<logfile, sess>>
  /\ pc = "duFinished"
  /\ pc' = "duAfter"
  /\ UNCHANGED <<this_exe, diskVars, remoteVars, version, offline, ti,
                 dll_version, newDlls, channel, ver, getter, install, cvRet,
                 duRet, run, result, retLine, launched, log, lastProg, hist>>

\* Lines 392-394: leave the loop when the job is finished.
DuFinished ==
  /\ UNCHANGED <<logfile, sess>>
  /\ pc = "duFinished"
  /\ pc' = IF IsFinished(getter) THEN "duAfter" ELSE "duPoll"
  /\ UNCHANGED <<this_exe, diskVars, remoteVars, version, offline, ti,
                 dll_version, newDlls, channel, ver, getter, install, cvRet,
                 duRet, run, result, retLine, launched, log, lastProg, hist>>

\* Lines 397-406: give up on a failed download, else start unpacking.
DuAfter ==
  /\ UNCHANGED <<logfile, sess>>
  /\ pc = "duAfter"
  /\ IF IsNonSuccess(getter) THEN
       /\ duRet' = FALSE
       /\ getter' = NoJob
       /\ pc' = "duReturned"
       /\ hist' = [hist EXCEPT !.failedAt =
                     IF @ = "none" THEN Step("Downloading", channel) ELSE @]
       /\ UNCHANGED install
     ELSE
       /\ install' = NewJob
       /\ hist' = [hist EXCEPT !.unpacks = @ + 1]
       /\ pc' = "zipPoll"
       /\ UNCHANGED <<duRet, getter>>
  /\ UNCHANGED <<this_exe, diskVars, remoteVars, version, offline, ti,
                 dll_version, newDlls, channel, ver, cvRet, run, result,
                 retLine, launched, log, lastProg>>

\* Lines 408-427: the unpack loop only leaves when the job is finished (a
\* pass that finds it busy changes nothing); doUpdate then returns.
ZipPoll ==
  /\ UNCHANGED <<logfile, sess>>
  /\ pc = "zipPoll"
  /\ IsFinished(install)
  /\ duRet' = ~IsNonSuccess(install)
  /\ hist' = [hist EXCEPT !.failedAt =
                IF IsNonSuccess(install) /\ @ = "none"
                  THEN Step("Staging", channel) ELSE @]
  /\ getter' = NoJob
  /\ install' = NoJob
  /\ pc' = "duReturned"
  /\ UNCHANGED <<this_exe, diskVars, remoteVars, version, offline, ti,
                 dll_version, newDlls, channel, ver, cvRet, run, result,
                 retLine, launched, log, lastProg>>

\* Mutant of AfterAppUpdate: the library check is given the application
\* version to compare against.
AfterAppUpdate_AppVersion ==
  /\ UNCHANGED <<logfile, sess>>
  /\ pc = "duReturned"
  /\ channel = "app"
  /\ IF ~duRet THEN
       /\ Return("false", 306)
       /\ UNCHANGED <<dll_version, channel, ver>>
     ELSE
       /\ dll_version' = IF dllVersionFile # NoFile THEN dllVersionFile
                         ELSE dll_version
       /\ channel' = "dll"
       /\ ver' = version
       /\ pc' = "checkVersion"
       /\ UNCHANGED <<result, retLine>>
  /\ UNCHANGED <<this_exe, diskVars, remoteVars, version, offline, ti,
                 newDlls, getter, install, cvRet, duRet, run, launched, log,
                 lastProg, hist>>

\* Lines 305-318: the application doUpdate has returned; on success read
\* the dll_version marker and call checkVersion for the library channel.
AfterAppUpdate ==
  /\ UNCHANGED <<logfile, sess>>
  /\ pc = "duReturned"
  /\ channel = "app"
  /\ IF ~duRet THEN
       /\ Return("false", 306)
       /\ UNCHANGED <<dll_version, channel, ver>>
     ELSE
       /\ dll_version' = IF dllVersionFile # NoFile THEN dllVersionFile
                         ELSE dll_version
       /\ channel' = "dll"
       /\ ver' = dll_version'
       /\ pc' = "checkVersion"
       /\ UNCHANGED <<result, retLine>>
  /\ UNCHANGED <<this_exe, diskVars, remoteVars, version, offline, ti,
                 newDlls, getter, install, cvRet, duRet, run, launched, log,
                 lastProg, hist>>

\* Lines 323-325: the library doUpdate has returned.
AfterDllUpdate ==
  /\ UNCHANGED <<logfile, sess>>
  /\ pc = "duReturned"
  /\ channel = "dll"
  /\ IF ~duRet THEN
       /\ Return("false", 324)
       /\ UNCHANGED newDlls
     ELSE
       /\ newDlls' = TRUE
       /\ pc' = "prepare"
       /\ UNCHANGED <<result, retLine>>
  /\ UNCHANGED <<this_exe, diskVars, remoteVars, version, offline, ti,
                 dll_version, channel, ver, getter, install, cvRet, duRet,
                 run, launched, log, lastProg, hist>>

\* ------------------------------------------------ background workers
\* The DownloadJob thread: it learns the total, receives bytes (possibly
\* more than the announced total), and ends.
\* After abort() it ends as aborted; a job that already ended keeps its
\* status.
DownloadStep ==
  /\ UNCHANGED <<logfile, sess>>
  /\ getter.status = "busy"
  /\ \/ /\ getter.total = 0
        /\ getter' = [getter EXCEPT !.total = MaxBytes]
     \/ /\ getter.current <= MaxBytes
        /\ getter' = [getter EXCEPT !.current = @ + 1]
     \/ /\ getter.abortRequested
        /\ getter' = [getter EXCEPT !.status = "abort"]
     \/ /\ ~getter.abortRequested
        /\ \E st \in {"done", "error"} :
             getter' = [getter EXCEPT !.status = st]
  /\ UNCHANGED <<pc, this_exe, diskVars, remoteVars, version, offline, ti,
                 dll_version, newDlls, channel, ver, install, cvRet, duRet,
                 run, result, retLine, launched, log, lastProg, hist>>

\* The ZipJob thread: it ends with the archive unpacked into up_dest, or
\* with an error that leaves up_dest as it was or created and incomplete.
UnzipStep ==
  /\ UNCHANGED <<logfile, sess>>
  /\ install.status = "busy"
  /\ \/ /\ install' = [install EXCEPT !.status = "done"]
        /\ up_dest' = Unpacked(up_dest, ti.url, ti.version)
     \/ /\ install' = [install EXCEPT !.status = "error"]
        /\ up_dest' \in {up_dest, [up_dest EXCEPT !.exists = TRUE]}
  /\ UNCHANGED <<pc, this_exe, override, exeFile, updater_exe, versionFile,
                 dllVersionFile, remoteVars, version, offline, ti,
                 dll_version, newDlls, channel, ver, getter, cvRet, duRet,
                 run, result, retLine, launched, log, lastProg, hist>>

\* ------------------------------------- doAutoUpdate, restart and launch
\* Lines 335-341: choose what to run; without new dlls copy the staged exe
\* to update.exe and the staged version marker over this_path/version.
Prepare ==
  /\ UNCHANGED <<logfile, sess>>
  /\ pc = "prepare"
  /\ IF ~newDlls THEN
       \E o1 \in CopyOutcomes, o2 \in CopyOutcomes :
         LET c1 == CopyLog(up_dest.exe, updater_exe, o1)
             c2 == CopyLog(up_dest.version, versionFile, o2)
         IN  /\ updater_exe' = c1.to
             /\ hist' = [hist EXCEPT !.prepared = TRUE]
             /\ IF c1.threw THEN
                  /\ Throw
                  /\ log' = Record(log, logfile, <<"Copy">>)
                  /\ UNCHANGED <<versionFile, run>>
                ELSE IF c2.threw THEN
                  /\ Throw
                  /\ versionFile' = c2.to
                  /\ log' = Record(log, logfile, <<"Copy", "Copy">>)
                  /\ UNCHANGED run
                ELSE
                  /\ versionFile' = c2.to
                  /\ log' = Record(log, logfile, <<"Copy", "Copy">>)
                  /\ run' = RunTarget(newDlls)
                  /\ pc' = "launch"
                  /\ UNCHANGED <<result, retLine>>
     ELSE
       /\ run' = RunTarget(newDlls)
       /\ pc' = "launch"
       /\ UNCHANGED <<updater_exe, versionFile, result, retLine, log, hist>>
  /\ UNCHANGED <<this_exe, override, exeFile, dllVersionFile, up_dest,
                 remoteVars, version, offline, ti, dll_version, newDlls,
                 channel, ver, getter, install, cvRet, duRet, launched,
                 lastProg>>

\* Line 349: the value doAutoUpdate returns for a wxExecute result.
LaunchRet(res) == IF res = LaunchFailed THEN "false" ELSE "true"

\* Lines 346-353: run the chosen executable.
Launch ==
  /\ UNCHANGED <<logfile, sess>>
  /\ pc = "launch"
  /\ \E res \in LaunchResults :
       /\ launched' = Append(launched, [target |-> run, res |-> res])
       /\ Return(LaunchRet(res), IF res = LaunchFailed THEN 350 ELSE 353)
  /\ log' = Record(log, logfile, <<"Running">>)
  /\ UNCHANGED <<this_exe, diskVars, remoteVars, version, offline, ti,
                 dll_version, newDlls, channel, ver, getter, install, cvRet,
                 duRet, run, lastProg, hist>>

\* Lines 46-50: a write to the open stream fails (disk full, file gone); the
\* stream goes bad and every later operator<< on it does nothing.  It is
\* taken where the next step of the run is one that logs.
LogWriteFails ==
  /\ pc \in {"helper", "clean", "cvReturned", "prepare", "launch"}
  /\ logfile = "open"
  /\ logfile' = "bad"
  /\ UNCHANGED sess
  /\ UNCHANGED <<pc, this_exe, diskVars, remoteVars, version, offline, ti,
                 dll_version, newDlls, channel, ver, getter, install, cvRet,
                 duRet, run, result, retLine, launched, log, lastProg, hist>>

\* ------------------------------------------------------ specification
Next ==
  \/ Start
  \/ HelperUpdate
  \/ Clean
  \/ CheckVersionEntry
  \/ CvPoll
  \/ CvFinished
  \/ CvAfter
  \/ AfterAppCheck
  \/ AfterDllCheck
  \/ DoUpdateEntry
  \/ DuPoll
  \/ DuFinished
  \/ DuAfter
  \/ ZipPoll
  \/ AfterAppUpdate
  \/ AfterDllUpdate
  \/ DownloadStep
  \/ UnzipStep
  \/ Prepare
  \/ Launch
  \/ LogWriteFails

Spec == Init /\ [][Next]_vars

\* The steps of the thread that runs doAutoUpdate.
Foreground ==
  \/ Start
  \/ HelperUpdate
  \/ Clean
  \/ CheckVersionEntry
  \/ CvPoll
  \/ CvFinished
  \/ CvAfter
  \/ AfterAppCheck
  \/ AfterDllCheck
  \/ DoUpdateEntry
  \/ DuPoll
  \/ DuFinished
  \/ DuAfter
  \/ ZipPoll
  \/ AfterAppUpdate
  \/ AfterDllUpdate
  \/ Prepare
  \/ Launch

\* The run under its scheduling: the calling thread keeps executing (the
\* poll loops sleep 40 ms and go round again), and each worker thread that
\* has work left keeps getting processor time beside it.
FairSpec ==
  /\ Spec
  /\ WF_vars(Foreground)
  /\ WF_vars(DownloadStep)
  /\ WF_vars(UnzipStep)

\* An embedder that uses one Updater for successive channel checks of one
\* run: it calls the public checkVersion up to MaxChecks times.
InitOracle ==
  /\ InitCommon
  /\ override = FALSE
  /\ exeFile = 1
  /\ updater_exe = NoFile
  /\ versionFile = NoFile
  /\ dllVersionFile = NoFile
  /\ up_dest = NoDir
  /\ pc = "embedder"
  /\ this_exe = "tiggit.exe"
  /\ hist = InitHist
  /\ sess = InitSess

\* Lines 79-81: a call checkVersion(url, ti, ver).
OracleCall ==
  /\ UNCHANGED <<logfile, sess>>
  /\ pc = "embedder"
  /\ hist.checks < MaxChecks
  /\ \E ch \in {"app", "dll"}, v \in FileVals :
       /\ channel' = ch
       /\ ver' = v
  /\ hist' = [hist EXCEPT !.checks = @ + 1]
  /\ pc' = "checkVersion"
  /\ UNCHANGED <<this_exe, diskVars, remoteVars, version, offline, ti,
                 dll_version, newDlls, getter, install, cvRet, duRet, run,
                 result, retLine, launched, log, lastProg>>

\* The call has returned to the embedder.
OracleReturn ==
  /\ UNCHANGED <<logfile, sess>>
  /\ pc = "cvReturned"
  /\ pc' = "embedder"
  /\ UNCHANGED <<this_exe, diskVars, remoteVars, version, offline, ti,
                 dll_version, newDlls, channel, ver, getter, install, cvRet,
                 duRet, run, result, retLine, launched, log, lastProg, hist>>

NextOracle ==
  \/ OracleCall
  \/ CheckVersionEntry
  \/ CvPoll
  \/ CvFinished
  \/ CvAfter
  \/ DownloadStep
  \/ OracleReturn

SpecOracle == InitOracle /\ [][NextOracle]_vars

\* ================================================================ claims
\* ------------------------------------------------- runs one after another
\* The files of the install directory.  While a run executes from the
\* staging directory, they are the ones kept aside, and the staging
\* directory is what that run has as its own this_path.
InstallDisk ==
  IF sess.staged
    THEN [override |-> sess.outer.override,
          exeFile |-> sess.outer.exeFile,
          updater_exe |-> sess.outer.updater_exe,
          versionFile |-> sess.outer.versionFile,
          dllVersionFile |-> sess.outer.dllVersionFile,
          up_dest |-> [exists |-> TRUE, exe |-> exeFile,
                       version |-> versionFile, dlls |-> sess.outer.dlls]]
    ELSE [override |-> override, exeFile |-> exeFile,
          updater_exe |-> updater_exe, versionFile |-> versionFile,
          dllVersionFile |-> dllVersionFile, up_dest |-> up_dest]

\* Which executable a path handed to wxExecute starts.
TargetKind(target) ==
  IF target = "update.exe" THEN "helper"
  ELSE IF target = "update/tiggit.exe" THEN "staged"
  ELSE "main"

\* The run that just ended met no failure: no exception, no failed or
\* cancelled job, no unreadable manifest, and what it launched did start.
NoFailure ==
  /\ result \in {"true", "false"}
  /\ retLine # 169
  /\ hist.failedAt = "none"
  /\ ~hist.cvCancel
  /\ ~hist.duCancel
  /\ (launched # << >> => Started(launched[Len(launched)].res))

\* The process that comes after this run when nobody interferes: the one
\* this run started with wxExecute, else the application started again.
Successor ==
  IF launched # << >> /\ Started(launched[Len(launched)].res)
    THEN TargetKind(launched[Len(launched)].target)
    ELSE "main"

\* Line 161 entered again: a new process (a new Updater, lines 73-75) runs
\* doAutoUpdate on the disk the runs before it left.  It is tiggit.exe or
\* update.exe of the install directory, or tiggit.exe of the staging
\* directory, for which this_path (line 176) is the staging directory: its
\* override, update.exe, update/ and dll_version are not there.  What the
\* runs before it wrote to update_log.txt is there as OldLog.
Restart ==
  /\ pc = "done"
  /\ \E next \in {"main", "helper", "staged"} :
       LET d == InstallDisk IN
       /\ next = "main" => d.exeFile # NoFile
       /\ next = "helper" => d.updater_exe # NoFile
       /\ next = "staged" => d.up_dest.exists /\ d.up_dest.exe # NoFile
       /\ this_exe' = IF next = "helper" THEN "update.exe" ELSE "tiggit.exe"
       /\ IF next = "staged" THEN
            /\ override' = FALSE
            /\ exeFile' = d.up_dest.exe
            /\ updater_exe' = NoFile
            /\ versionFile' = d.up_dest.version
            /\ dllVersionFile' = NoFile
            /\ up_dest' = NoDir
          ELSE
            /\ override' = d.override
            /\ exeFile' = d.exeFile
            /\ updater_exe' = d.updater_exe
            /\ versionFile' = d.versionFile
            /\ dllVersionFile' = d.dllVersionFile
            /\ up_dest' = d.up_dest
       /\ sess' = [sess EXCEPT
            !.staged = (next = "staged"),
            !.outer = IF next = "staged"
                        THEN [override |-> d.override, exeFile |-> d.exeFile,
                              updater_exe |-> d.updater_exe,
                              versionFile |-> d.versionFile,
                              dllVersionFile |-> d.dllVersionFile,
                              dlls |-> d.up_dest.dlls]
                        ELSE NoOuter,
            !.prev = [role |-> this_exe, staged |-> sess.staged,
                      retLine |-> retLine],
            !.chain = @ /\ next = Successor,
            !.nofail = @ /\ NoFailure,
            !.downloaded = @ \/ hist.archiveFetches > 0]
  /\ hist' = [InitHist EXCEPT !.start =
                [versionFile |-> versionFile', exeFile |-> exeFile',
                 updater_exe |-> updater_exe', up_dest |-> up_dest']]
  /\ pc' = "start"
  /\ version' = Unknown
  /\ offline' = FALSE
  /\ ti' = [version |-> Unknown, url |-> "none"]
  /\ dll_version' = Unknown
  /\ newDlls' = FALSE
  /\ channel' = "none"
  /\ ver' = Unknown
  /\ getter' = NoJob
  /\ install' = NoJob
  /\ cvRet' = TRUE
  /\ duRet' = TRUE
  /\ run' = "none"
  /\ result' = "none"
  /\ retLine' = 0
  /\ launched' = << >>
  /\ logfile' = "closed"
  /\ log' = OldLog
  /\ lastProg' = NoProg
  /\ UNCHANGED remoteVars

\* A consistent install that is possibly out of date: the version marker
\* names the installed build, nothing is left from an update, the
\* application is started from the install directory.
InitRuns ==
  /\ InitCommon
  /\ override = FALSE
  /\ exeFile \in Versions
  /\ updater_exe = NoFile
  /\ versionFile = exeFile
  /\ dllVersionFile \in FileVals
  /\ up_dest = NoDir
  /\ pc = "start"
  /\ this_exe = "tiggit.exe"
  /\ hist = [InitHist EXCEPT !.start =
               [versionFile |-> versionFile, exeFile |-> exeFile,
                updater_exe |-> updater_exe, up_dest |-> up_dest]]
  /\ sess = [InitSess EXCEPT !.exe0 = exeFile, !.dll0 = dllVersionFile]

NextRuns ==
  \/ Foreground
  \/ DownloadStep
  \/ UnzipStep
  \/ Restart

SpecRuns == InitRuns /\ [][NextRuns]_vars

MainRole == this_exe = "tiggit.exe"
Done == pc = "done"
ResidueAtStart == hist.start.up_dest.exists \/ hist.start.updater_exe # NoFile
LastLaunch == launched[Len(launched)]

\* C1: when the application manifest's version token equals the locally
\* recorded version, checkVersion returns true (up to date) and doAutoUpdate
\* returns false, having started no archive transfer and no unpack, written
\* nothing to the staging directory and launched nothing; the manifest fetch
\* is the only network call of the run.
C1_UpToDateNoTransfer ==
  (hist.manifestFetches >= 1 /\ appManifest.ok /\ appManifest.version = version)
    => /\ hist.manifestFetches = 1
       /\ hist.archiveFetches = 0
       /\ hist.unpacks = 0
       /\ up_dest = hist.start.up_dest
       /\ launched = << >>
       /\ (pc = "cvReturned" => cvRet)
       /\ (Done => result = "false")

C1_Witness ==
  /\ Done
  /\ retLine = 296
  /\ hist.cvSuccess
  /\ ~hist.cvCancel
  /\ appManifest.ok
  /\ appManifest.version = version

\* The case of C2 and its amendment: a main-app run that has ended, whose
\* application manifest differed, whose application archive was downloaded
\* and unpacked, and whose library check reported no change.
C2_Case ==
  /\ Done
  /\ MainRole
  /\ appManifest.ok
  /\ appManifest.version # version
  /\ channel = "dll"
  /\ cvRet
  /\ hist.archiveFetches = 1

\* C2 as stated, for the runs in which no copy throws: in that case
\* doAutoUpdate has copied the staged executable to update.exe, overwritten
\* the version marker with the staged marker, launched update.exe and
\* returned true.
C2_Original ==
  (C2_Case /\ result # "threw")
    => /\ updater_exe = up_dest.exe
       /\ versionFile = up_dest.version
       /\ Len(launched) = 1
       /\ LastLaunch.target = "update.exe"
       /\ result = "true"

\* C2 (amended): in that case doAutoUpdate attempts the copy of the staged
\* executable to update.exe and then of the staged version marker over the
\* install marker.  If a copy throws, the exception leaves doAutoUpdate and
\* nothing is launched.  Otherwise update.exe holds the staged build, the
\* marker holds the manifest's version, update.exe is the one run target
\* handed to wxExecute, and doAutoUpdate returns true unless wxExecute
\* returned -1, in which case it returns false.
C2_Amended ==
  C2_Case
    => /\ hist.prepared
       /\ \/ /\ result = "threw"
             /\ launched = << >>
          \/ /\ updater_exe = up_dest.exe
             /\ updater_exe = appManifest.version
             /\ versionFile = up_dest.version
             /\ versionFile = appManifest.version
             /\ Len(launched) = 1
             /\ LastLaunch.target = "update.exe"
             /\ (LastLaunch.res # 0 - 1 => result = "true")
             /\ (LastLaunch.res = 0 - 1 => result = "false")

C2_Witness ==
  /\ C2_Case
  /\ result = "true"
  /\ retLine = 353
  /\ Started(LastLaunch.res)
  /\ versionFile # hist.start.versionFile
  /\ updater_exe = appManifest.version

\* C3: the version marker and update.exe are written only by the
\* PreparingRestart step of a run without new dlls; when the library channel
\* changed too and its archive was staged, the run target is the staged
\* tiggit.exe, the staging directory is left in place with both archives,
\* and the marker and update.exe are as they were at startup.
C3_InstallWrittenOnlyWithoutNewDlls ==
  /\ [][ ( \/ (versionFile' # versionFile /\ versionFile' # NoFile)
           \/ (updater_exe' # updater_exe /\ updater_exe' # NoFile) )
         => (pc = "prepare" /\ ~newDlls) ]_vars
  /\ []( (newDlls /\ pc \in {"launch", "done"})
         => /\ run = "update/tiggit.exe"
            /\ up_dest.exists
            /\ up_dest.exe = appManifest.version
            /\ up_dest.dlls = dllManifest.version
            /\ versionFile = hist.start.versionFile
            /\ updater_exe = hist.start.updater_exe
            /\ ~hist.prepared
            /\ (launched # << >> => LastLaunch.target = "update/tiggit.exe") )

C3_Witness ==
  /\ Done
  /\ newDlls
  /\ result = "true"
  /\ LastLaunch.target = "update/tiggit.exe"
  /\ up_dest.exists

\* C4 as stated, for the runs that pass the platform and override checks and
\* in which no removal or copy throws: in every run that starts with a
\* staging directory or an update.exe on disk, whatever its role, the residue
\* is removed, there is no version check, no download and no launch, and the
\* run returns false.
C4_Original ==
  (Done /\ ResidueAtStart /\ retLine \notin {169, 174} /\ result # "threw")
    => /\ result = "false"
       /\ ~up_dest.exists
       /\ updater_exe = NoFile
       /\ hist.manifestFetches = 0
       /\ hist.archiveFetches = 0
       /\ launched = << >>

\* The runs C4 (amended) is about: the main-app role, past the platform and
\* override checks, with residue on disk at startup.
C4_Case ==
  /\ MainRole
  /\ ResidueAtStart
  /\ ~override
  /\ pc \notin {"start"}
  /\ retLine # 169

\* C4 (amended): in a main-app-role run that passes the platform and override
\* checks and finds a staging directory or an update.exe at startup, the only
\* step taken is the removal of that residue: no version check, no download,
\* no unpack and no launch happen, and the run returns false with the residue
\* gone, unless a removal throws, in which case the exception leaves
\* doAutoUpdate.  (A run in the updater role keeps update.exe, copies and
\* launches; a run with the override file does nothing.)
C4_Amended ==
  C4_Case
    => /\ pc \in {"clean", "done"}
       /\ hist.manifestFetches = 0
       /\ hist.archiveFetches = 0
       /\ hist.unpacks = 0
       /\ launched = << >>
       /\ exeFile = hist.start.exeFile
       /\ versionFile = hist.start.versionFile
       /\ (Done => result \in {"false", "threw"})
       /\ (result = "false" => (retLine = 279 /\ ~up_dest.exists /\ updater_exe = NoFile))

C4_Witness ==
  /\ C4_Case
  /\ Done
  /\ result = "false"
  /\ hist.start.up_dest.exists
  /\ ~up_dest.exists

\* C5: whenever the user's cancel is observed at a poll of an archive
\* download in doUpdate, the download job ends finished and non-successful,
\* doUpdate returns false, and doAutoUpdate returns false without changing
\* the version marker or the executables and without launching a process.
C5_CancelAbortsUpdate ==
  hist.duCancel
    => /\ (pc = "duAfter" => IsNonSuccess(getter))
       /\ (pc = "duReturned" => ~duRet)
       /\ (Done => /\ result = "false"
                   /\ versionFile = hist.start.versionFile
                   /\ exeFile = hist.start.exeFile
                   /\ updater_exe = hist.start.updater_exe
                   /\ launched = << >>)

\* C6: checkVersion fails open: it returns false (update available) only when
\* the manifest transfer succeeded, no cancel was observed during the call,
\* the manifest decoded, and its version differs from ver; so it returns true
\* whenever the transfer did not succeed, the manifest did not decode, or the
\* user cancelled, a cancel that raced with a successful download included.
C6_FailOpen ==
  pc = "cvReturned"
    => (~cvRet => /\ hist.cvSuccess
                   /\ ~hist.cvCancel
                   /\ Manifest(channel).ok
                   /\ Manifest(channel).version # ver)

C6_Witness ==
  /\ pc = "cvReturned"
  /\ hist.cvCancel
  /\ hist.cvSuccess
  /\ Manifest(channel).ok
  /\ Manifest(channel).version # ver
  /\ cvRet

C8_TrueOnlyIfStarted ==
  (Done /\ result = "true")
    => /\ launched # << >>
       /\ Started(LastLaunch.res)

\* C9: a NetworkFailure, ParseFailure or UserCanceled at any step, the
\* library check included, ends the run with doAutoUpdate returning false,
\* no PreparingRestart copy and no launch.
C9_FailureAborts ==
  (Done /\ hist.failedAt # "none")
    => /\ result = "false"
       /\ ~hist.prepared
       /\ launched = << >>

\* C10: whenever doAutoUpdate returns false, the version marker and the
\* application executable of the install directory are what they were when
\* the run started.
C10_FalseLeavesInstall ==
  (Done /\ result = "false")
    => /\ versionFile = hist.start.versionFile
       /\ exeFile = hist.start.exeFile

\* A pass of a poll loop: the step that hands progress to the sink.
InPoll == pc \in {"cvPoll", "duPoll"}

\* C11: with the override file beside the executable, doAutoUpdate returns
\* false in either role with the whole pipeline disabled: the log is not
\* opened or written, no residue is cleaned, no file is copied, no transfer
\* or unpack is started and nothing is launched.
C11_OverrideDisablesAll ==
  override
    => /\ pc \in {"start", "done"}
       /\ (Done => (result = "false" /\ retLine \in {169, 174}))
       /\ logfile = "closed"
       /\ log = OldLog
       /\ exeFile = hist.start.exeFile
       /\ updater_exe = hist.start.updater_exe
       /\ versionFile = hist.start.versionFile
       /\ up_dest = hist.start.up_dest
       /\ hist.manifestFetches = 0
       /\ hist.archiveFetches = 0
       /\ hist.unpacks = 0
       /\ getter = NoJob
       /\ install = NoJob
       /\ launched = << >>

C11_Witness ==
  /\ override
  /\ Done
  /\ retLine = 174
  /\ this_exe = "update.exe"
  /\ hist.start.up_dest.exists

\* C12: in every pass of the checkVersion and doUpdate poll loops in which
\* the job's total is not 0, the sink receives current*100/total, or 99 when
\* that is 100 or more (current >= total included), so it never receives 100.
C12_PercentClampedBelow100 ==
  /\ [][ (InPoll /\ pc' # pc /\ getter.total # 0)
         => LET q == (getter.current * 100) \div getter.total
            IN  lastProg' = IF q > 99 THEN 99 ELSE q ]_vars
  /\ [](lastProg < 100)

C12_Witness ==
  /\ pc = "duFinished"
  /\ getter.status = "busy"
  /\ getter.total # 0
  /\ getter.current > getter.total
  /\ lastProg = 99

\* C13: in every pass of a poll loop in which the job's total is 0 the sink
\* receives a pulse and no percentage, and a download whose total stayed 0
\* and that ended successfully is not treated as failed: doUpdate goes on to
\* unpacking, and checkVersion goes on to decoding the manifest.
C13_UnknownTotalPulses ==
  /\ [][ (InPoll /\ pc' # pc /\ getter.total = 0) => lastProg' = Pulse ]_vars
  /\ [][ (pc = "duAfter" /\ pc' # pc /\ getter.total = 0 /\ IsSuccess(getter))
         => (pc' = "zipPoll" /\ install'.status = "busy"
             /\ hist'.failedAt = hist.failedAt) ]_vars
  /\ [][ (pc = "cvAfter" /\ pc' # pc /\ getter.total = 0 /\ IsSuccess(getter)
          /\ ~offline /\ Manifest(channel).ok)
         => (ti'.version = Manifest(channel).version
             /\ hist'.failedAt = hist.failedAt) ]_vars

C13_Witness ==
  /\ pc = "zipPoll"
  /\ getter.total = 0
  /\ IsSuccess(getter)
  /\ lastProg = Pulse

\* The updater helper has finished its copy and gone on to the launch.
HelperCopied == this_exe = "update.exe" /\ retLine = 234

AfterJobStep == pc \in {"cvReturned", "checkVersion", "doUpdate", "prepare",
                        "launch"}

\* C15 as stated: every step waits for the job of the step before it, also
\* when the user cancels during a version check.
C15_Original ==
  /\ [](pc \in {"cvAfter", "duAfter"} => IsFinished(getter))
  /\ [][pc = "zipPoll" /\ pc' # pc => IsFinished(install)]_vars
  /\ [](AfterJobStep => ~hist.abandoned)

\* C15: the archive download and the unpacking are always waited for; a
\* manifest download is waited for unless the user cancels during it.  On
\* that one path checkVersion returns while the job may still be running:
\* the job's file is then not parsed, the offline flag is set, and the run
\* starts no further job.
C15_SequentialExceptCancel ==
  /\ [](pc = "duAfter" => IsFinished(getter))
  /\ [][pc = "zipPoll" /\ pc' # pc => IsFinished(install)]_vars
  /\ [](pc = "cvAfter" => IsFinished(getter) \/ hist.cvCancel)
  /\ [](pc = "cvAfter" /\ ~IsFinished(getter)
          => offline /\ ~Decoded(getter, offline, Manifest(channel)))
  /\ [](hist.abandoned => offline /\ hist.cvCancel)
  /\ [][hist.abandoned => getter' = NoJob /\ install' = NoJob]_vars

C15_Witness ==
  /\ pc = "launch"
  /\ hist.abandoned
  /\ hist.unpacks = 1

\* The run is in the updater-helper role.
HelperRole == this_exe = "update.exe"

\* C16 as stated: every helper-role run that gets past the platform check
\* and ends without an exception has copied update.exe over tiggit.exe,
\* launched tiggit.exe and returned true, without cleaning, fetching or
\* unpacking.
C16_Original ==
  (HelperRole /\ Done /\ retLine # 169 /\ result # "threw")
    => /\ result = "true"
       /\ exeFile = hist.start.updater_exe
       /\ Len(launched) = 1
       /\ hist.manifestFetches = 0
       /\ hist.archiveFetches = 0
       /\ hist.unpacks = 0
       /\ up_dest = hist.start.up_dest
       /\ updater_exe = hist.start.updater_exe

\* C16 (amended): a helper-role run never cleans residue, never fetches a
\* manifest or an archive and never unpacks.  When the platform check fails
\* or the override file is present it returns false with nothing copied or
\* launched.  Otherwise it copies update.exe over tiggit.exe; if that copy
\* throws, the exception leaves doAutoUpdate and nothing is launched; if
\* not, it calls wxExecute once on the install directory's tiggit.exe and
\* returns true whatever wxExecute returned.
C16_Amended ==
  HelperRole
    => /\ pc \in {"start", "helper", "done"}
       /\ hist.manifestFetches = 0
       /\ hist.archiveFetches = 0
       /\ hist.unpacks = 0
       /\ getter = NoJob
       /\ install = NoJob
       /\ up_dest = hist.start.up_dest
       /\ updater_exe = hist.start.updater_exe
       /\ versionFile = hist.start.versionFile
       /\ (Done /\ (override \/ retLine = 169)
             => /\ result = "false"
                /\ retLine \in {169, 174}
                /\ exeFile = hist.start.exeFile
                /\ launched = << >>)
       /\ (Done /\ ~override /\ retLine # 169
             => \/ result = "threw" /\ launched = << >>
                \/ /\ result = "true"
                   /\ retLine = 234
                   /\ exeFile = updater_exe
                   /\ Len(launched) = 1
                   /\ launched[1].target = "tiggit.exe")

C16_Witness ==
  /\ HelperRole
  /\ Done
  /\ result = "true"
  /\ hist.start.up_dest.exists
  /\ exeFile # hist.start.exeFile
  /\ launched # << >>
  /\ ~Started(launched[1].res)

\* C17: every cancel the user makes, in a manifest check or in an archive
\* download, sets the offline flag, and the flag once set stays set until
\* the run ends.
C17_CancelSetsOffline ==
  /\ [][(pc \in {"cvPoll", "duPoll"} /\ getter'.abortRequested
           /\ ~getter.abortRequested) => offline']_vars
  /\ []((hist.cvCancel \/ hist.duCancel) => offline)
  /\ [][offline => offline']_vars

\* Sequence b starts with all of sequence a, in order.
Extends(a, b) == Len(b) >= Len(a) /\ SubSeq(b, 1, Len(a)) = a

\* A step in which UpdateLog::log is called at least once.
LogsLine ==
  \/ pc = "start" /\ pc' # "done"
  \/ pc \in {"helper", "clean", "launch"} /\ pc' # pc
  \/ pc = "prepare" /\ ~newDlls /\ pc' # pc

C19_FilesystemFailureHandled ==
  Done
    => /\ result \in {"true", "false"}
       /\ (hist.start.exeFile # NoFile => exeFile # NoFile)
       /\ (hist.start.versionFile # NoFile => versionFile # NoFile)

\* C20: when every started job eventually finishes, every run of
\* doAutoUpdate comes to an end and ends by returning true or false; the
\* archive-download loop and the unpack loop are left only when their job
\* is finished, the version-check loop also at once when the user cancels.
C20_TerminatesWithBoolean ==
  /\ <>Done
  /\ [](Done => result \in {"true", "false"})
  /\ [][pc = "duFinished" /\ pc' = "duAfter" => IsFinished(getter)]_vars
  /\ [][pc = "zipPoll" /\ pc' # pc => IsFinished(install)]_vars
  /\ [][(pc \in {"cvPoll", "cvFinished"} /\ pc' = "cvAfter")
          => IsFinished(getter) \/ hist'.cvCancel]_vars
  /\ [][pc = "cvPoll" /\ hist'.cvCancel => pc' = "cvAfter"]_vars

\* C26: when the download of the application archive is about to start and
\* while it runs, neither the staging directory nor update.exe exists; a run
\* that found either at startup never gets to a check or a download.
C26_FreshStaging ==
  /\ ((pc \in {"doUpdate", "duPoll", "duFinished", "duAfter"} /\ channel = "app")
        => ~up_dest.exists /\ updater_exe = NoFile)
  /\ ((hist.manifestFetches > 0 \/ hist.archiveFetches > 0)
        => ~ResidueAtStart)

C26_Witness ==
  /\ pc = "duPoll"
  /\ channel = "app"
  /\ hist.archiveFetches = 1
  /\ getter.status = "busy"
  /\ ~up_dest.exists
  /\ updater_exe = NoFile

\* The token in this_path/dll_version as line 313 reads it: nothing read
\* when the file is missing.
DllMarker == IF dllVersionFile # NoFile THEN dllVersionFile ELSE Unknown

\* C22: the library check is only made once the application archive of this
\* run was downloaded and unpacked with success; a doUpdate that fails ends
\* the run with false and no further check; and the library manifest is
\* compared with the dll_version marker, not with the application version.
C22_LibraryCheckAfterApp ==
  /\ [](channel = "dll"
          => /\ hist.archiveFetches >= 1
             /\ hist.unpacks >= 1
             /\ hist.manifestFetches >= 1
             /\ up_dest.exists
             /\ up_dest.exe = appManifest.version
             /\ hist.failedAt \notin {"DownloadingApp", "StagingApp"})
  /\ [][(pc = "duReturned" /\ channel = "app" /\ ~duRet)
          => /\ pc' = "done"
             /\ result' = "false"
             /\ hist'.manifestFetches = 1]_vars
  /\ []((pc \in {"checkVersion", "cvPoll", "cvFinished", "cvAfter"}
           /\ channel = "dll") => ver = DllMarker)
  /\ []((pc = "cvReturned" /\ channel = "dll" /\ hist.cvSuccess /\ ~offline
           /\ dllManifest.ok)
          => (cvRet <=> dllManifest.version = DllMarker))

C22_Witness ==
  /\ pc = "cvReturned"
  /\ channel = "dll"
  /\ ~cvRet
  /\ dllManifest.version = version
  /\ dllManifest.version # DllMarker
  /\ DllMarker # Unknown

\* The last line of update_log.txt.
LastRecord == log[Len(log)]

\* C23: with a working log, every transition of a run past the override
\* check has its record: a run that gave up after a failed download or
\* unpack has a record later than the upgrade decision, a run whose launch
\* failed has a record later than "Running", and a library check has a
\* record of its fetch and of its outcome.
C23_AllTransitionsLogged ==
  /\ (Done /\ logfile = "open" /\ retLine \in {306, 324})
       => LastRecord \notin {"Upgrading version", "Upgrading dll-pack version"}
  /\ (Done /\ logfile = "open" /\ retLine = 350)
       => LastRecord # "Running"
  /\ (pc = "cvPoll" /\ logfile = "open")
       => LastRecord = "Fetching"

\* The run before this one was a main-app run from the install directory
\* that found residue, removed it and returned (line 279), and this run is
\* again a main-app run from the install directory.
AfterCleaningRun ==
  /\ sess.prev.role = "tiggit.exe"
  /\ ~sess.prev.staged
  /\ sess.prev.retLine = 279
  /\ MainRole
  /\ ~sess.staged

\* C21: when a main-app run that found residue has returned, the staging
\* directory and update.exe are both gone, and the next main-app run from
\* the install directory finds no residue, does not clean and goes on to
\* the application version check.
C21_RecoveryOneRestart ==
  /\ []((MainRole /\ ~sess.staged /\ Done /\ retLine = 279)
          => ~up_dest.exists /\ updater_exe = NoFile)
  /\ []((AfterCleaningRun /\ pc = "clean")
          => ~HasResidue(up_dest, updater_exe))
  /\ [][(AfterCleaningRun /\ pc = "clean" /\ pc' # pc)
          => /\ pc' = "checkVersion"
             /\ channel' = "app"
             /\ UNCHANGED <<up_dest, updater_exe>>]_vars
  /\ []((AfterCleaningRun /\ Done) => retLine # 279)

C21_Witness ==
  /\ AfterCleaningRun
  /\ pc = "cvPoll"
  /\ channel = "app"
  /\ hist.manifestFetches = 1
  /\ ~up_dest.exists
  /\ updater_exe = NoFile

\* C25: whenever a main-app run from the install directory gets to the
\* residue test and finds no residue, a version marker that is there names
\* the build that tiggit.exe holds, whatever the runs before it did (each
\* followed by the process it launched, or by the application started
\* again): no update is recorded as installed over the old executable.
C25_MarkerMatchesExe ==
  (sess.chain /\ MainRole /\ ~sess.staged /\ pc = "clean"
     /\ ~HasResidue(up_dest, updater_exe) /\ versionFile # NoFile)
    => versionFile = exeFile

\* A main-app run from the install directory is at the residue test with
\* nothing to clean, in a sequence of runs without failures in which each
\* run was followed by the process it launched (or by the application
\* started again), and an earlier run of the sequence fetched the
\* application archive.
AfterUpdateRound ==
  /\ sess.chain
  /\ sess.nofail
  /\ sess.downloaded
  /\ MainRole
  /\ ~sess.staged
  /\ pc = "clean"
  /\ ~HasResidue(up_dest, updater_exe)

\* C24: with fixed manifests and no failures the runs converge: once the
\* update was fetched and the runs after it have finished their work, the
\* install directory is not back in the state the sequence started from
\* (old build, old marker, nothing staged), from where the same runs would
\* repeat for ever; it holds the new build and a marker equal to the
\* manifest version.
C24_ConvergesAcrossRestarts ==
  AfterUpdateRound
    => /\ ~(exeFile = sess.exe0 /\ versionFile = sess.exe0
              /\ dllVersionFile = sess.dll0)
       /\ exeFile = appManifest.version
       /\ versionFile = appManifest.version

====
